---- MODULE Spec2Model ----
(***************************************************************************)
(* A model of autoconvert.py: the batch loop of main, the codec-driven     *)
(* choice of the ffmpeg argument template, the two encoder invokers, the   *)
(* rename/delete finalisation of a converted source, and seconds_to_time.  *)
(*                                                                         *)
(* File names are sequences of tokens: <<"a", ".mkv">> is "a.mkv" and      *)
(* <<"converted_", "a", ".mkv">> is "converted_a.mkv".  Every extension    *)
(* token stands for four characters, as ".mkv" does.                       *)
(***************************************************************************)
EXTENDS Integers, Sequences, FiniteSets, TLC

VARIABLES
    fs,           \* the filesystem: a set of directory entries
    args,         \* the parsed command line (argparse.Namespace)
    run,          \* which invocation of the program this is
    pc,           \* position of main
    files,        \* main: the candidate list
    idx,          \* main: position of the for loop in files (1-based)
    failed,       \* main: failed list
    succeeded,    \* main: succeeded list
    success,      \* main: the encoder's return value for the current file
    probe_stdout, \* codec_info: what the two ffprobe runs printed
    audio_codec,  \* determine_encoding_method_and_convert: local
    video_codec,  \* determine_encoding_method_and_convert: local
    ffargs,       \* encode_video_ffmpeg: the selected argument template
    exc,          \* the exception that left main, "none" while there is none
    calls,        \* external processes started and os calls made in this run
    log,          \* outcome records the encoders logged in this run
    sec,          \* seconds_to_time: its argument
    total_time    \* seconds_to_time: its result

vars == <<fs, args, run, pc, files, idx, failed, succeeded, success,
          probe_stdout, audio_codec, video_codec, ffargs, exc, calls, log, sec, total_time>>

\* ------------------------------------------------------------------ bounds

\* How many times the program is run over the same directories.
MaxRuns == 2

\* The largest elapsed time handed to seconds_to_time.
MaxSec == 90000

\* ------------------------------------------------------------------- names

MARKER == "converted_"

valid_exts == {".mkv"}

\* Every token that is a dot followed by three characters.
ExtTokens == {".mkv", ".mp4", ".txt"}

\* f.startswith("converted_") in place of the substring test.
HasMarkerPrefixOnly(f) == Len(f) > 0 /\ f[1] = MARKER

\* "converted_" in f
HasMarker(f) == \E i \in 1..Len(f) : f[i] = MARKER

\* Path(...).suffix: the last extension of the final component, "" when the
\* name has none or is only a leading-dot name.
Suffix(f) ==
    IF Len(f) > 1 /\ f[Len(f)] \in ExtTokens THEN f[Len(f)] ELSE ""

\* video_file[:-4]
StripLast4(f) == SubSeq(f, 1, Len(f) - 1)

\* f"converted_{video_file[:-4]}.mp4"
OutputName(video_file) == <<MARKER>> \o StripLast4(video_file) \o <<".mp4">>

\* f"converted_{vid}"
NewName(vid) == <<MARKER>> \o vid

\* -------------------------------------------------------------- filesystem

NameA == <<"a", ".mkv">>
NameB == <<"b", ".mkv">>

Entry(d, n, k, i) == [dir |-> d, name |-> n, kind |-> k, id |-> i]

InitialEntry(d, n, k) == Entry(d, n, k, <<"initial", 0, n>>)

\* What the input directory may hold before the first run: two sources, a
\* source already marked by an earlier run, a source with the marker inside
\* its name, a file of another type, and a subdirectory named like a source.
InputUniverse ==
    { InitialEntry("in", NameA, "file"),
      InitialEntry("in", NameB, "file"),
      InitialEntry("in", NewName(NameA), "file"),
      InitialEntry("in", <<"b", MARKER, ".mkv">>, "file"),
      InitialEntry("in", <<"a", ".txt">>, "file"),
      InitialEntry("in", <<"c", ".mkv">>, "dir") }

\* The output of an earlier conversion of a.mkv, in the output directory.
OutputUniverse(outputdir) ==
    { InitialEntry(outputdir, OutputName(NameA), "file") }

At(d, n) == {e \in fs : e.dir = d /\ e.name = n}

Exists(d, n) == At(d, n) # {}

\* os.path.isfile
IsFile(d, n) == \E e \in At(d, n) : e.kind = "file"

\* os.listdir
ListDir(d) == {e.name : e \in {x \in fs : x.dir = d}}

\* fs without the entry at a path
Removed(d, n) == fs \ At(d, n)

\* fs with a regular file (re)written at a path
Written(d, n, i) == Removed(d, n) \cup {Entry(d, n, "file", i)}

\* ------------------------------------------------------------ command line

ArgSet(dirs) ==
    [inputdir : {"in"}, outputdir : dirs, dry_run : BOOLEAN,
     delete_source : BOOLEAN, handbrake : BOOLEAN]

\* ------------------------------------------------------------------- main

\* The filter of the list comprehension that builds files.
IsCandidate(d, f) ==
    /\ IsFile(d, f)
    /\ ~HasMarker(f)
    /\ Suffix(f) \in valid_exts

Candidates(d) == {f \in ListDir(d) : IsCandidate(d, f)}

\* os.listdir returns the entries in arbitrary order.
Orderings(S) ==
    {s \in [1..Cardinality(S) -> S] : \A i, j \in 1..Cardinality(S) : i # j => s[i] # s[j]}

vid == files[idx]

Unbound == <<"unbound">>

NoOutput == [video |-> <<>>, audio |-> <<>>]

NoArgs == [overwrite |-> "", input |-> <<>>, output |-> <<>>, cv |-> "", level |-> "", ca |-> ""]

\* Locals of a function that has returned or was not entered.
NoLocals ==
    /\ probe_stdout' = NoOutput
    /\ audio_codec' = Unbound
    /\ video_codec' = Unbound
    /\ ffargs' = NoArgs

\* files = [...]; failed = []; succeeded = []
Enumerate ==
    /\ pc = "start"
    /\ \E order \in Orderings(Candidates(args.inputdir)) : files' = order
    /\ idx' = 1
    /\ failed' = <<>>
    /\ succeeded' = <<>>
    /\ pc' = "loop"
    /\ UNCHANGED <<fs, args, run, success, probe_stdout, audio_codec, video_codec, ffargs,
                   exc, calls, log, sec, total_time>>

\* for vid in files: if args.handbrake ... else ...
LoopNext ==
    /\ pc = "loop"
    /\ idx <= Len(files)
    /\ pc' = IF args.handbrake THEN "handbrake" ELSE "probe"
    /\ UNCHANGED <<fs, args, run, files, idx, failed, succeeded, success,
                   probe_stdout, audio_codec, video_codec, ffargs, exc, calls, log, sec, total_time>>

\* The loop is exhausted: the two closing log lines.
Summarize ==
    /\ pc = "loop"
    /\ idx > Len(files)
    /\ pc' = "done"
    /\ UNCHANGED <<fs, args, run, files, idx, failed, succeeded, success,
                   probe_stdout, audio_codec, video_codec, ffargs, exc, calls, log, sec, total_time>>

\* --------------------------------------------------------------- codec_info

\* What ffprobe prints for one stream: a codec name and a line end, or
\* nothing when the file has no such stream.
ProbeStdout ==
    { <<"h264", "\n">>, <<"aac", "\n">>, <<"mp3", "\r", "\n">>, <<>> }

\* str.rstrip("\r\n")
RECURSIVE Rstrip(_)
Rstrip(s) ==
    IF Len(s) > 0 /\ s[Len(s)] \in {"\r", "\n"}
    THEN Rstrip(SubSeq(s, 1, Len(s) - 1))
    ELSE s

\* The pair returned in (video, audio) order.
CodecInfoReturnSwapped(video_stdout, audio_stdout) ==
    <<Rstrip(video_stdout), Rstrip(audio_stdout)>>

\* return (audio_output, video_output)
CodecInfoReturn(video_stdout, audio_stdout) ==
    <<Rstrip(audio_stdout), Rstrip(video_stdout)>>

\* audio_codec, video_codec = codec_info(...): both ffprobe runs, check=True.
\* A failing run raises CalledProcessError (or OSError when ffprobe cannot be
\* started); neither determine_encoding_method_and_convert nor main has a
\* handler, so the exception leaves main.
CodecInfo ==
    /\ pc = "probe"
    /\ calls' = calls \cup {<<"ffprobe", vid>>}
    /\ \/ /\ \E vout \in ProbeStdout, aout \in ProbeStdout :
                LET r == CodecInfoReturn(vout, aout)
                IN  /\ probe_stdout' = [video |-> vout, audio |-> aout]
                    /\ audio_codec' = r[1]
                    /\ video_codec' = r[2]
          /\ pc' = "plan"
          /\ exc' = exc
       \/ /\ pc' = "aborted"
          /\ exc' = "CalledProcessError"
          /\ UNCHANGED <<probe_stdout, audio_codec, video_codec>>
    /\ UNCHANGED <<fs, args, run, files, idx, failed, succeeded, success,
                   ffargs, log, sec, total_time>>

\* ------------------------------------------------------ encode_video_ffmpeg

\* The ffmpeg_args dictionary.
FfmpegArgs(key, input, output) ==
    LET common == [overwrite |-> "-n", input |-> input, output |-> output]
    IN  CASE key = "both" ->
               common @@ [cv |-> "libx264", level |-> "4.0", ca |-> "aac"]
          [] key = "none" ->
               common @@ [cv |-> "copy", level |-> "", ca |-> "copy"]
          [] key = "audio_only" ->
               common @@ [cv |-> "copy", level |-> "", ca |-> "aac"]
          [] key = "video_only" ->
               common @@ [cv |-> "libx264", level |-> "", ca |-> "copy"]

\* The if/elif chain over (audio, video).
TemplateKey(audio, video) ==
    IF ~audio /\ ~video THEN "none"
    ELSE IF audio /\ ~video THEN "audio_only"
    ELSE IF ~audio /\ video THEN "video_only"
    ELSE "both"

\* convert_video / convert_audio of determine_encoding_method_and_convert
ConvertVideo(vcodec) == ~(vcodec = <<"h264">>)

ConvertAudio(acodec) == ~(acodec = <<"aac">>)

\* determine_encoding_method_and_convert after the probe, and
\* encode_video_ffmpeg up to the selection of ffargs.
Plan ==
    /\ pc = "plan"
    /\ ffargs' = FfmpegArgs(
                    TemplateKey(ConvertAudio(audio_codec), ConvertVideo(video_codec)),
                    <<args.inputdir, vid>>,
                    <<args.outputdir, OutputName(vid)>>)
    /\ pc' = "run"
    /\ UNCHANGED <<fs, args, run, files, idx, failed, succeeded, success,
                   probe_stdout, audio_codec, video_codec, exc, calls, log, sec, total_time>>

\* What the except branch leaves of the filesystem g: os.remove(output_file)
\* inside try/except-pass.  A regular file there is removed, unless the
\* removal itself fails; anything else makes os.remove raise, which is ignored.
Cleanup(g, d, n) ==
    IF \E e \in g : e.dir = d /\ e.name = n /\ e.kind = "file"
    THEN {g \ {e \in g : e.dir = d /\ e.name = n}, g}
    ELSE {g}

\* What a failing ffmpeg run leaves: with -n an existing output is not
\* touched; otherwise nothing, or a partly written output.
FfmpegFailureLeaves(d, n) ==
    IF Exists(d, n) THEN {fs}
    ELSE {fs, Written(d, n, <<"ffmpeg", run, vid>>)}

\* The try block of encode_video_ffmpeg and its handler.
RunFfmpeg ==
    /\ pc = "run"
    /\ LET d == ffargs.output[1]
           n == ffargs.output[2]
       IN  \/ /\ args.dry_run
              /\ success' = TRUE
              /\ log' = log \cup {<<"completed", vid>>}
              /\ UNCHANGED <<fs, calls>>
           \/ /\ ~args.dry_run
              /\ ~Exists(d, n)
              /\ fs' = Written(d, n, <<"ffmpeg", run, vid>>)
              /\ calls' = calls \cup {<<"ffmpeg", vid>>}
              /\ success' = TRUE
              /\ log' = log \cup {<<"completed", vid>>}
           \/ /\ ~args.dry_run
              /\ \E g \in FfmpegFailureLeaves(d, n) : fs' \in Cleanup(g, d, n)
              /\ calls' = calls \cup {<<"ffmpeg", vid>>, <<"remove", <<d, n>>>>}
              /\ success' = FALSE
              /\ log' = log \cup {<<"error", vid>>}
    /\ NoLocals
    /\ pc' = "finalize"
    /\ UNCHANGED <<args, run, files, idx, failed, succeeded, exc, sec, total_time>>

\* --------------------------------------------------- encode_video_handbrake

\* subprocess.run(handbrake_params, check=True) in try/except: there is no
\* dry_run parameter and no cleanup.  HandBrakeCLI overwrites its output.
RunHandbrake ==
    /\ pc = "handbrake"
    /\ calls' = calls \cup {<<"HandBrakeCLI", vid>>}
    /\ LET d == args.outputdir
           n == OutputName(vid)
           out == Written(d, n, <<"HandBrakeCLI", run, vid>>)
       IN  \/ /\ fs' = out
              /\ success' = TRUE
              /\ log' = log \cup {<<"completed", vid>>}
           \/ /\ fs' \in {fs, out}
              /\ success' = FALSE
              /\ log' = log \cup {<<"error", vid>>}
    /\ pc' = "finalize"
    /\ UNCHANGED <<args, run, files, idx, failed, succeeded,
                   probe_stdout, audio_codec, video_codec, ffargs, exc, sec, total_time>>

\* ------------------------------------------------------- main: finalisation

\* The end of one iteration of the for loop.
NextFile ==
    /\ idx' = idx + 1
    /\ pc' = "loop"

\* Finalize with failed.append(vid) outside the else: it runs for every file.
FinalizeNoElse ==
    /\ pc = "finalize"
    /\ failed' = Append(failed, vid)
    /\ IF success
       THEN /\ succeeded' = Append(succeeded, vid)
            /\ IF ~args.dry_run
               THEN pc' = "rename" /\ idx' = idx
               ELSE NextFile
       ELSE /\ succeeded' = succeeded
            /\ NextFile
    /\ UNCHANGED <<fs, args, run, files, success, probe_stdout, audio_codec, video_codec,
                   ffargs, exc, calls, log, sec, total_time>>

\* Finalize with the rename outside the if success: a failed file is renamed too.
FinalizeRenameOnFailure ==
    /\ pc = "finalize"
    /\ IF success
       THEN /\ succeeded' = Append(succeeded, vid)
            /\ failed' = failed
       ELSE /\ failed' = Append(failed, vid)
            /\ succeeded' = succeeded
    /\ IF ~args.dry_run
       THEN pc' = "rename" /\ idx' = idx
       ELSE NextFile
    /\ UNCHANGED <<fs, args, run, files, success, probe_stdout, audio_codec, video_codec,
                   ffargs, exc, calls, log, sec, total_time>>

\* Finalize with succeeded.insert(0, vid) in place of succeeded.append(vid).
FinalizeInsertFirst ==
    /\ pc = "finalize"
    /\ IF success
       THEN /\ succeeded' = <<vid>> \o succeeded
            /\ failed' = failed
            /\ IF ~args.dry_run
               THEN pc' = "rename" /\ idx' = idx
               ELSE NextFile
       ELSE /\ failed' = Append(failed, vid)
            /\ succeeded' = succeeded
            /\ NextFile
    /\ UNCHANGED <<fs, args, run, files, success, probe_stdout, audio_codec, video_codec,
                   ffargs, exc, calls, log, sec, total_time>>

\* if success: succeeded.append(vid) ... else: failed.append(vid)
Finalize ==
    /\ pc = "finalize"
    /\ IF success
       THEN /\ succeeded' = Append(succeeded, vid)
            /\ failed' = failed
            /\ IF ~args.dry_run
               THEN pc' = "rename" /\ idx' = idx
               ELSE NextFile
       ELSE /\ failed' = Append(failed, vid)
            /\ succeeded' = succeeded
            /\ NextFile
    /\ UNCHANGED <<fs, args, run, files, success, probe_stdout, audio_codec, video_codec,
                   ffargs, exc, calls, log, sec, total_time>>

\* os.rename(src, dst) of a regular file: dst, if there, is replaced.
Renamed(d, src, dst) ==
    (fs \ (At(d, src) \cup At(d, dst)))
        \cup {Entry(d, dst, e.kind, e.id) : e \in At(d, src)}

\* new_name = f"converted_{vid}"; os.rename(...).  An OSError (a permission,
\* a directory in the way, a platform that does not replace) has no handler.
Rename ==
    /\ pc = "rename"
    /\ calls' = calls \cup {<<"rename", vid>>}
    /\ \/ /\ ~(\E e \in At(args.inputdir, NewName(vid)) : e.kind = "dir")
          /\ fs' = Renamed(args.inputdir, vid, NewName(vid))
          /\ IF args.delete_source /\ ~args.dry_run
             THEN pc' = "delete" /\ idx' = idx
             ELSE NextFile
          /\ exc' = exc
       \/ /\ pc' = "aborted"
          /\ exc' = "OSError"
          /\ UNCHANGED <<fs, idx>>
    /\ UNCHANGED <<args, run, files, failed, succeeded, success,
                   probe_stdout, audio_codec, video_codec, ffargs, log, sec, total_time>>

\* Delete with os.remove given the original name vid, which the rename has
\* already moved away: nothing is removed.
DeleteOriginalName ==
    /\ pc = "delete"
    /\ calls' = calls \cup {<<"remove", <<args.inputdir, vid>>>>}
    /\ \/ /\ fs' = Removed(args.inputdir, vid)
          /\ NextFile
          /\ exc' = exc
       \/ /\ pc' = "aborted"
          /\ exc' = "OSError"
          /\ UNCHANGED <<fs, idx>>
    /\ UNCHANGED <<args, run, files, failed, succeeded, success,
                   probe_stdout, audio_codec, video_codec, ffargs, log, sec, total_time>>

\* os.remove(os.path.join(args.inputdir, new_name)), no handler either.
Delete ==
    /\ pc = "delete"
    /\ calls' = calls \cup {<<"remove", <<args.inputdir, NewName(vid)>>>>}
    /\ \/ /\ fs' = Removed(args.inputdir, NewName(vid))
          /\ NextFile
          /\ exc' = exc
       \/ /\ pc' = "aborted"
          /\ exc' = "OSError"
          /\ UNCHANGED <<fs, idx>>
    /\ UNCHANGED <<args, run, files, failed, succeeded, success,
                   probe_stdout, audio_codec, video_codec, ffargs, log, sec, total_time>>

\* ------------------------------------------------------------ program runs

Fresh ==
    /\ pc' = "start"
    /\ files' = <<>>
    /\ idx' = 1
    /\ failed' = <<>>
    /\ succeeded' = <<>>
    /\ success' = FALSE
    /\ NoLocals
    /\ exc' = "none"
    /\ calls' = {}
    /\ log' = {}

\* The program is started again on the same directories, with any flags.
NextRun ==
    /\ pc \in {"done", "aborted"}
    /\ run < MaxRuns
    /\ run' = run + 1
    /\ args' \in ArgSet({args.outputdir})
    /\ Fresh
    /\ UNCHANGED <<fs, sec, total_time>>

Init ==
    /\ run = 1
    /\ args \in ArgSet({"in", "out"})
    /\ \E I \in SUBSET InputUniverse, O \in SUBSET OutputUniverse(args.outputdir) :
          fs = I \cup O
    /\ pc = "start"
    /\ files = <<>>
    /\ idx = 1
    /\ failed = <<>>
    /\ succeeded = <<>>
    /\ success = FALSE
    /\ probe_stdout = NoOutput
    /\ audio_codec = Unbound
    /\ video_codec = Unbound
    /\ ffargs = NoArgs
    /\ exc = "none"
    /\ calls = {}
    /\ log = {}
    /\ sec = 0
    /\ total_time = <<>>

Next ==
    \/ Enumerate
    \/ LoopNext
    \/ CodecInfo
    \/ Plan
    \/ RunFfmpeg
    \/ RunHandbrake
    \/ Finalize
    \/ Rename
    \/ Delete
    \/ Summarize
    \/ NextRun

Spec == Init /\ [][Next]_vars

\* -------------------------------------------------------- seconds_to_time

DigitChars == <<"0", "1", "2", "3", "4", "5", "6", "7", "8", "9">>

\* str(n) for n >= 0
RECURSIVE Decimal(_)
Decimal(n) ==
    IF n < 10 THEN <<DigitChars[n + 1]>>
    ELSE Decimal(n \div 10) \o <<DigitChars[(n % 10) + 1]>>

\* f"{n:02d}": zero-padded to at least two digits
Format02d(n) ==
    IF Len(Decimal(n)) < 2 THEN <<"0">> \o Decimal(n) ELSE Decimal(n)

\* seconds_to_time with the line sec %= 3600 left out.
seconds_to_time_no_hour_mod(s) ==
    LET day == s \div (24 * 3600)
        s1 == s % (24 * 3600)
        hour == s1 \div 3600
        minutes == s1 \div 60
        s3 == s1 % 60
    IN  Format02d(day) \o <<"d", ":">> \o Format02d(hour) \o <<"h", ":">>
            \o Format02d(minutes) \o <<"m", ":">> \o Format02d(s3) \o <<"s">>

seconds_to_time(s) ==
    LET day == s \div (24 * 3600)
        s1 == s % (24 * 3600)
        hour == s1 \div 3600
        s2 == s1 % 3600
        minutes == s2 \div 60
        s3 == s2 % 60
    IN  Format02d(day) \o <<"d", ":">> \o Format02d(hour) \o <<"h", ":">>
            \o Format02d(minutes) \o <<"m", ":">> \o Format02d(s3) \o <<"s">>

\* One call of seconds_to_time.
SecondsToTime ==
    /\ pc = "time"
    /\ total_time' = seconds_to_time(sec)
    /\ pc' = "timed"
    /\ UNCHANGED <<fs, args, run, files, idx, failed, succeeded, success,
                   probe_stdout, audio_codec, video_codec, ffargs, exc, calls, log, sec>>

InitTime ==
    /\ sec \in 0..MaxSec
    /\ total_time = <<>>
    /\ pc = "time"
    /\ run = 1
    /\ args = [inputdir |-> "in", outputdir |-> "out", dry_run |-> FALSE,
               delete_source |-> FALSE, handbrake |-> FALSE]
    /\ fs = {}
    /\ files = <<>>
    /\ idx = 1
    /\ failed = <<>>
    /\ succeeded = <<>>
    /\ success = FALSE
    /\ probe_stdout = NoOutput
    /\ audio_codec = Unbound
    /\ video_codec = Unbound
    /\ ffargs = NoArgs
    /\ exc = "none"
    /\ calls = {}
    /\ log = {}

NextTime == SecondsToTime

SpecTime == InitTime /\ [][NextTime]_vars

\* ================================================================= claims

Range(s) == {s[i] : i \in 1..Len(s)}

Processed == {files[j] : j \in 1..(idx - 1)}

InDir == args.inputdir

\* ---------------------------------------------------------------------- C1
\* C1: a failing codec prober never aborts the batch: no exception raised by
\* codec_info leaves main; the file is recorded as failed and the loop goes
\* on to the summary.
C1_ProbeFailureContained == exc # "CalledProcessError"

\* ---------------------------------------------------------------------- C2
\* C2: in dry-run mode, whatever the other flags, no external process is
\* started, nothing is renamed or removed, no file fails, and at the summary
\* every candidate is in the succeeded list.
C2_DryRunHasNoEffect ==
    args.dry_run =>
        /\ calls = {}
        /\ failed = <<>>
        /\ pc # "aborted"
        /\ pc = "done" => Range(succeeded) = Range(files)

\* ---------------------------------------------------------------------- C3
\* C3: no file is ever in both lists; at the summary, with K the number of
\* conversions that reported success among the N candidates, succeeded has
\* length K, failed has length N - K, and every candidate is in exactly one.
C3_ListsPartitionCandidates ==
    /\ Range(succeeded) \cap Range(failed) = {}
    /\ pc = "done" =>
          LET K == Cardinality({j \in 1..Len(files) : <<"completed", files[j]>> \in log})
          IN  /\ Len(succeeded) = K
              /\ Len(failed) = Len(files) - K
              /\ Cardinality(Range(succeeded)) = Len(succeeded)
              /\ Cardinality(Range(failed)) = Len(failed)
              /\ \A j \in 1..Len(files) :
                    (files[j] \in Range(succeeded)) # (files[j] \in Range(failed))

C3_Witness ==
    /\ pc = "done"
    /\ Len(files) = 2
    /\ Len(succeeded) = 1
    /\ Len(failed) = 1

\* ---------------------------------------------------------------------- C4
\* The files this run converted with --delete_source in effect and whose
\* finalize step is over.
DeletedSources ==
    IF args.delete_source /\ ~args.dry_run
    THEN Processed \cap Range(succeeded)
    ELSE {}

\* C4 as stated: after the finalize step of such a file its original name is
\* gone from the input directory and the renamed, marked file is there.
C4_RenamedFileRemains ==
    \A f \in DeletedSources :
        /\ ~Exists(InDir, f)
        /\ Exists(InDir, NewName(f))

\* C4 as the code has it: after the finalize step of such a file neither its
\* original name nor the renamed, marked name exists in the input directory:
\* the source is renamed and the renamed file is then deleted.
C4_SourceIsDeleted ==
    \A f \in DeletedSources :
        /\ ~Exists(InDir, f)
        /\ ~Exists(InDir, NewName(f))
        /\ <<"rename", f>> \in calls
        /\ <<"remove", <<InDir, NewName(f)>>>> \in calls

C4_Witness ==
    /\ pc = "loop"
    /\ idx = 2
    /\ DeletedSources = {NameA}
    /\ <<"remove", <<InDir, NewName(NameA)>>>> \in calls

\* ---------------------------------------------------------------------- C5
\* C5: a file whose encoder invocation reported failure is appended to the
\* failed list (and not to succeeded) by its finalize step, its source is
\* still there under its original name, it was neither renamed nor removed,
\* and the loop moves on to the next file instead of stopping.
C5_FailedSourceUntouched ==
    \A i \in 1..Len(files) :
        <<"error", files[i]>> \in log =>
            /\ InitialEntry(InDir, files[i], "file") \in fs
            /\ <<"rename", files[i]>> \notin calls
            /\ <<"remove", <<InDir, files[i]>>>> \notin calls
            /\ <<"remove", <<InDir, NewName(files[i])>>>> \notin calls
            /\ files[i] \notin Range(succeeded)
            /\ idx = i => pc = "finalize"
            /\ idx # i => (idx > i /\ files[i] \in Range(failed))

C5_Witness ==
    /\ ~args.dry_run
    /\ args.delete_source
    /\ Len(files) = 2
    /\ pc \in {"probe", "handbrake"}
    /\ idx = 2
    /\ failed = <<files[1]>>

\* ---------------------------------------------------------------------- C6
\* C6: no selected name contains the marker, no name is selected twice, and a
\* source that a run renamed is never among the candidates of that run's
\* remaining work or of a later run.
C6_DiscoveryIdempotent ==
    /\ \A i \in 1..Len(files) : \A k \in 1..Len(files[i]) : files[i][k] # "converted_"
    /\ \A i, j \in 1..Len(files) : i # j => files[i] # files[j]
    /\ \A e \in fs :
          (e.dir = InDir /\ e.id[1] = "initial" /\ e.name # e.id[3]) =>
              e.name \notin Range(files)
    /\ \A i \in idx..Len(files) :
          \A e \in At(InDir, files[i]) : e.id = <<"initial", 0, files[i]>>

C6_Witness ==
    /\ run = 2
    /\ pc = "loop"
    /\ idx = 1
    /\ files = <<NameB>>
    /\ Entry("in", NewName(NameA), "file", <<"initial", 0, NameA>>) \in fs

\* ---------------------------------------------------------------------- C7
\* ffprobe printed this codec name (and a line end) for the stream.
CodecPrinted(stdout, name) == Len(stdout) > 0 /\ stdout[1] = name

\* C7: the template handed to ffmpeg copies the video stream iff ffprobe named
\* the video stream h264 and re-encodes it with libx264 otherwise, and copies
\* the audio stream iff ffprobe named the audio stream aac and re-encodes it
\* to aac otherwise.
C7_EncodeModeFollowsCodecs ==
    pc = "run" =>
        /\ ffargs.cv = (IF CodecPrinted(probe_stdout.video, "h264") THEN "copy" ELSE "libx264")
        /\ ffargs.ca = (IF CodecPrinted(probe_stdout.audio, "aac") THEN "copy" ELSE "aac")

C7_Witness ==
    /\ pc = "run"
    /\ probe_stdout = [video |-> <<"aac", "\n">>, audio |-> <<"h264", "\n">>]
    /\ ffargs.cv = "libx264"
    /\ ffargs.ca = "aac"

\* ---------------------------------------------------------------------- C8
IsDigits(s) == \A i \in 1..Len(s) : \E d \in 1..10 : DigitChars[d] = s[i]

RECURSIVE ParseDecimal(_)
ParseDecimal(s) ==
    IF Len(s) = 0 THEN 0
    ELSE 10 * ParseDecimal(SubSeq(s, 1, Len(s) - 1))
            + ((CHOOSE d \in 1..10 : DigitChars[d] = s[Len(s)]) - 1)

\* C8: the result reads DDd:HHh:MMm:SSs with two-digit hours < 24, minutes
\* < 60 and seconds < 60, days of at least two digits, and the four fields
\* add up to sec; 0, 3661 and 90000 give the three strings of the examples.
C8_FloorDecomposition ==
    pc = "timed" =>
        LET t == total_time
            n == Len(t)
            D == SubSeq(t, 1, n - 13)
            H == SubSeq(t, n - 10, n - 9)
            M == SubSeq(t, n - 6, n - 5)
            S == SubSeq(t, n - 2, n - 1)
        IN  /\ n >= 15
            /\ <<t[n - 12], t[n - 11], t[n - 8], t[n - 7], t[n - 4], t[n - 3], t[n]>>
                  = <<"d", ":", "h", ":", "m", ":", "s">>
            /\ IsDigits(D) /\ IsDigits(H) /\ IsDigits(M) /\ IsDigits(S)
            /\ ParseDecimal(H) < 24
            /\ ParseDecimal(M) < 60
            /\ ParseDecimal(S) < 60
            /\ ParseDecimal(D) * 86400 + ParseDecimal(H) * 3600
                  + ParseDecimal(M) * 60 + ParseDecimal(S) = sec
            /\ sec = 0 => t = <<"0", "0", "d", ":", "0", "0", "h", ":",
                                "0", "0", "m", ":", "0", "0", "s">>
            /\ sec = 3661 => t = <<"0", "0", "d", ":", "0", "1", "h", ":",
                                   "0", "1", "m", ":", "0", "1", "s">>
            /\ sec = 90000 => t = <<"0", "1", "d", ":", "0", "1", "h", ":",
                                    "0", "0", "m", ":", "0", "0", "s">>

C8_Witness ==
    /\ pc = "timed"
    /\ sec = 90000
    /\ total_time = <<"0", "1", "d", ":", "0", "1", "h", ":",
                      "0", "0", "m", ":", "0", "0", "s">>

\* ---------------------------------------------------------------------- C9
Position(f) == CHOOSE i \in 1..Len(files) : files[i] = f

InEnumerationOrder(list) ==
    /\ Range(list) \subseteq Range(files)
    /\ \A i, j \in 1..Len(list) : i < j => Position(list[i]) < Position(list[j])

Mentioned(f) ==
    \/ \E c \in calls : c[1] \in {"ffprobe", "ffmpeg", "HandBrakeCLI", "rename"} /\ c[2] = f
    \/ <<"remove", <<args.outputdir, OutputName(f)>>>> \in calls
    \/ <<"remove", <<InDir, NewName(f)>>>> \in calls
    \/ <<"completed", f>> \in log
    \/ <<"error", f>> \in log
    \/ f \in Range(succeeded) \cup Range(failed)

\* C9: while a file is at hand every earlier file of the enumeration order is
\* finished (listed, and when it succeeded outside a dry run renamed and, with
\* --delete_source, removed), no later file has been touched, and both lists
\* are subsequences of the enumeration order.
C9_SequentialInOrder ==
    /\ InEnumerationOrder(succeeded)
    /\ InEnumerationOrder(failed)
    /\ \A j \in 1..Len(files) :
          /\ j < idx =>
                /\ files[j] \in Range(succeeded) \cup Range(failed)
                /\ (files[j] \in Range(succeeded) /\ ~args.dry_run) =>
                      /\ <<"rename", files[j]>> \in calls
                      /\ ~Exists(InDir, files[j])
                      /\ args.delete_source =>
                            /\ <<"remove", <<InDir, NewName(files[j])>>>> \in calls
                            /\ ~Exists(InDir, NewName(files[j]))
          /\ j > idx => ~Mentioned(files[j])

C9_Witness ==
    /\ pc \in {"probe", "handbrake"}
    /\ idx = 2
    /\ Len(files) = 2
    /\ succeeded = <<files[1]>>
    /\ ~args.dry_run
    /\ args.delete_source

\* --------------------------------------------------------------------- C10
\* C10: a failing call of encode_video_ffmpeg leaves a file that was at the
\* output path before the call where it was.
C10_ExistingOutputSurvivesFailure ==
    [][(pc = "run" /\ pc' = "finalize" /\ ~success')
          => At(ffargs.output[1], ffargs.output[2]) \subseteq fs']_vars

====
